---- MODULE Spec2Model ----
(***************************************************************************)
(* A model of tangram/mapping_utils.py: pp_adatas,                         *)
(* adata_to_cluster_expression and map_cells_to_space.                     *)
(*                                                                         *)
(* An AnnData is a record:                                                 *)
(*   var   : the gene index (var.index), a sequence of gene names          *)
(*   X     : the expression matrix, a sequence of rows of counts           *)
(*   Xdiv  : one divisor per row (1 for raw counts; the cluster size for   *)
(*           the means adata_to_cluster_expression writes with             *)
(*           scale = False), so that X[i][j] / Xdiv[i] is the entry        *)
(*   Xtype : the storage class of X                                        *)
(*   obs   : the column obs["cluster"], one label per row ("NaN" = missing)*)
(*   density : obs["rna_count_based_density"] / obs["cluster_density"],    *)
(*           a vector of fractions or None                                 *)
(*   uns   : uns["training_genes"], a list or None (key absent)            *)
(* A vector of fractions num[i] / den is [kind |-> "ndarray", num, den];   *)
(* den = 0 stands for the NaN vector numpy yields on 0 / 0.                *)
(***************************************************************************)
EXTENDS Integers, Sequences, FiniteSets

VARIABLES
    args,              \* the arguments of the call in progress
    adata_sc,          \* the caller's single-cell dataset
    adata_space,       \* the caller's spatial dataset
    adata_cells,       \* map_cells_to_space's local adata_cells
    pc,                \* the position in the call
    error,             \* the exception that ended the call, or "none"
    training_genes,    \* local of map_cells_to_space
    S,                 \* local S
    G,                 \* local G
    density_prior,     \* local density_prior (reassigned at lines 197, 201)
    d,                 \* local d (the parameter d until lines 204-209)
    mapper,            \* the mo.Mapper instance, or None
    training_history,  \* the history train() accumulates
    reports,           \* the number of loss lines train() has logged
    adata_map,         \* local adata_map: the resume argument, then the result
    returned           \* the value the call returned, or None

vars == <<args, adata_sc, adata_space, adata_cells, pc, error, training_genes,
          S, G, density_prior, d, mapper, training_history, reports, adata_map,
          returned>>

\* ------------------------------------------------------------------ bounds

MaxEpochs == 2
MaxSpots == 2
MaxCells == 2
MaxObs == 4
MaxGenes == 2
PrintEachVerbose == 100

\* ----------------------------------------------------------------- helpers

None == [kind |-> "None"]

RECURSIVE Sum(_)
Sum(s) == IF s = <<>> THEN 0 ELSE Head(s) + Sum(Tail(s))

Range(s) == {s[i] : i \in DOMAIN s}

Orderings(T) == {s \in [1..Cardinality(T) -> T] : Range(s) = T}

IndexOf(g, index) == CHOOSE i \in DOMAIN index : index[i] = g

VectorSum(rows, n) == [j \in 1..n |-> Sum([i \in DOMAIN rows |-> rows[i][j]])]

SelectRows(X, keep) == SelectSeq([i \in DOMAIN X |-> <<i, X[i]>>], LAMBDA p : keep[p[1]])

Ndarray(num, den) == [kind |-> "ndarray", num |-> num, den |-> den]

Str(s) == [kind |-> "str", s |-> s]

List(items) == [kind |-> "list", items |-> items]

\* ------------------------------------------- adata_to_cluster_expression

ObsColumns == {"cluster"}

Labelled(col) == SelectSeq(col, LAMBDA l : l # "NaN")

\* value_counts dividing by the number of rows, labelled or not.
value_countsOverAllRows(col) ==
    [l \in Range(Labelled(col)) |->
        [num |-> Len(SelectSeq(col, LAMBDA x : x = l)), den |-> Len(col)]]

\* Series.value_counts(normalize=True): missing labels are dropped and each
\* count is divided by the number of labelled rows.
value_counts(col) ==
    [l \in Range(Labelled(col)) |->
        [num |-> Len(SelectSeq(col, LAMBDA x : x = l)), den |-> Len(Labelled(col))]]

\* value_counts.index: the labels by descending count (ties in any order).
IndexOrders(vc) ==
    {s \in Orderings(DOMAIN vc) :
        \A i, j \in DOMAIN s : i < j => vc[s[i]].num >= vc[s[j]].num}

ClusterRows(adata, l) ==
    LET rows == SelectRows(adata.X, [i \in DOMAIN adata.X |-> adata.obs[i] = l])
    IN  [i \in DOMAIN rows |-> rows[i][2]]

ClusterDensityOf(vc, unique_labels) ==
    Ndarray([i \in DOMAIN unique_labels |-> vc[unique_labels[i]].num],
            IF unique_labels = <<>> THEN 0 ELSE vc[unique_labels[1]].den)

adata_to_cluster_expression(adata, cluster_label, scale, add_density, unique_labels) ==
    IF cluster_label.kind # "str" \/ cluster_label.s \notin ObsColumns
    THEN [error |-> "ValueError: Provided label must belong to adata.obs.", ret |-> None]
    ELSE LET vc == value_counts(adata.obs)
         IN  [error |-> "none",
              ret |-> [var |-> adata.var,
                       X |-> [i \in DOMAIN unique_labels |->
                               VectorSum(ClusterRows(adata, unique_labels[i]), Len(adata.var))],
                       Xdiv |-> [i \in DOMAIN unique_labels |->
                               IF scale THEN 1 ELSE vc[unique_labels[i]].num],
                       Xtype |-> "ndarray",
                       obs |-> unique_labels,
                       density |-> IF add_density
                                   THEN ClusterDensityOf(vc, unique_labels)
                                   ELSE None,
                       uns |-> adata.uns]]

\* ------------------------------------------------------------- pp_adatas

\* str.lower on the gene names of the model.
Lower(g) == CASE g = "A" -> "a" [] g = "B" -> "b" [] OTHER -> g

\* The name var_names_make_unique gives the k-th repetition of g.
Suffixed(g, k) ==
    CASE k = 0 -> g
      [] k = 1 /\ g = "a" -> "a-1"
      [] k = 1 /\ g = "b" -> "b-1"
      [] k = 2 /\ g = "a" -> "a-2"
      [] k = 2 /\ g = "b" -> "b-2"
      [] k = 3 /\ g = "a" -> "a-3"
      [] k = 3 /\ g = "b" -> "b-3"

\* AnnData.var_names_make_unique: the first occurrence keeps its name, the
\* k-th later one gets the suffix -k.
var_names_make_unique(index) ==
    [i \in DOMAIN index |->
        Suffixed(index[i], Cardinality({j \in 1..(i - 1) : index[j] = index[i]}))]

LowerIndex(index) == [i \in DOMAIN index |-> Lower(index[i])]

\* adata[:, names]: the columns of the named genes, in the order of names.
Subset(X, index, names) ==
    [i \in DOMAIN X |-> [k \in DOMAIN names |-> X[i][IndexOf(names[k], index)]]]

\* sc.pp.filter_genes(adata, min_cells=1): keep the genes some cell expresses.
filter_genes(adata) ==
    LET kept == SelectSeq(adata.var,
                    LAMBDA g : \E i \in DOMAIN adata.X : adata.X[i][IndexOf(g, adata.var)] > 0)
    IN  [adata EXCEPT !.var = kept, !.X = Subset(adata.X, adata.var, kept)]

\* Lines 34-43: both indexes lower-cased, made unique, zero genes removed.
Normalised(adata) ==
    filter_genes([adata EXCEPT !.var = var_names_make_unique(LowerIndex(adata.var))])

\* SharedGenes without the intersection with the spatial index.
SharedGenesOfCellsOnly(genes, sc_index, sp_index) ==
    LET wanted == IF genes = None
                  THEN Range(LowerIndex(sc_index))
                  ELSE Range(LowerIndex(genes.items))
    IN  wanted \cap Range(sc_index)

\* Lines 45-52: the genes shared by the gene list and both indexes, as a set.
SharedGenes(genes, sc_index, sp_index) ==
    LET wanted == IF genes = None
                  THEN Range(LowerIndex(sc_index))
                  ELSE Range(LowerIndex(genes.items))
    IN  wanted \cap Range(sc_index) \cap Range(sp_index)

\* Lines 61-65: the share of the counts that falls on each spot.
RnaCountDensity(adata) ==
    LET rna_count_per_spot == [i \in DOMAIN adata.X |-> Sum(adata.X[i])]
    IN  Ndarray(rna_count_per_spot, Sum(rna_count_per_spot))

\* ----------------------------------------------------- map_cells_to_space

\* Stages with the test for all-zero genes placed after the training.
StagesCheckingZeroGenesLate ==
    <<"check_args", "aggregate", "check_genes", "allocate", "density", "construct",
      "train", "check_zero", "save">>

\* The steps of map_cells_to_space in the order of the source.
Stages ==
    <<"check_args", "aggregate", "check_genes", "allocate", "check_zero",
      "density", "construct", "train", "save">>

NextStage(p) ==
    LET i == CHOOSE k \in DOMAIN Stages : Stages[k] = p
    IN  IF i < Len(Stages) THEN Stages[i + 1] ELSE "done"

\* ArgumentError without the test of lambda_g1.
ArgumentErrorSkippingLambdaG1(a) ==
    IF a.density_prior # None /\ a.lambda_d = 0
    THEN "ValueError: When density_prior is not None, lambda_d cannot be 0."
    ELSE IF a.mode \notin {"clusters", "cells"}
    THEN "ValueError: Argument mode must be cells or clusters"
    ELSE IF a.mode = "clusters" /\ a.cluster_label = None
    THEN "ValueError: A cluster_label must be specified if mode = clusters."
    ELSE "none"

\* ArgumentError testing lambda_d only for the density priors given by name.
ArgumentErrorNamedPriorsOnly(a) ==
    IF a.lambda_g1 = 0
    THEN "ValueError: lambda_g1 cannot be 0."
    ELSE IF a.density_prior.kind = "str" /\ a.lambda_d = 0
    THEN "ValueError: When density_prior is not None, lambda_d cannot be 0."
    ELSE IF a.mode \notin {"clusters", "cells"}
    THEN "ValueError: Argument mode must be cells or clusters"
    ELSE IF a.mode = "clusters" /\ a.cluster_label = None
    THEN "ValueError: A cluster_label must be specified if mode = clusters."
    ELSE "none"

\* Lines 139-150.
ArgumentError(a) ==
    IF a.lambda_g1 = 0
    THEN "ValueError: lambda_g1 cannot be 0."
    ELSE IF a.density_prior # None /\ a.lambda_d = 0
    THEN "ValueError: When density_prior is not None, lambda_d cannot be 0."
    ELSE IF a.mode \notin {"clusters", "cells"}
    THEN "ValueError: Argument mode must be cells or clusters"
    ELSE IF a.mode = "clusters" /\ a.cluster_label = None
    THEN "ValueError: A cluster_label must be specified if mode = clusters."
    ELSE "none"

\* Lines 157-166; the comparison of the two lists is an assert statement.
TrainingGenesError(cells, space) ==
    IF cells.uns = None
    THEN "ValueError: Missing tangram parameters. Run pp_adatas()."
    ELSE IF space.uns = None
    THEN "ValueError: Missing tangram parameters. Run pp_adatas()."
    ELSE IF space.uns.items # cells.uns.items
    THEN "AssertionError"
    ELSE "none"

Sparse(t) == t \in {"csc_matrix", "csr_matrix"}

Tensor(adata, genes) ==
    [kind |-> "ndarray", rows |-> Subset(adata.X, adata.var, genes),
     div |-> adata.Xdiv, cols |-> genes]

\* Lines 174-181. adata_cells[:, training_genes] is a view; the X of a view of
\* a dense AnnData is anndata's ArrayView, which has toarray() like the
\* sparse classes, so both branches yield the dense array.
AllocateS(cells, genes) ==
    IF Sparse(cells.Xtype) \/ cells.Xtype = "ndarray"
    THEN IF Range(genes) \subseteq Range(cells.var)
         THEN [error |-> "none", tensor |-> Tensor(cells, genes)]
         ELSE [error |-> "KeyError: training_genes", tensor |-> None]
    ELSE [error |-> "NotImplementedError", tensor |-> None]

\* Lines 183-190. In the sparse branch toarray() is called on the AnnData
\* view itself (line 184), which has no such attribute.
AllocateG(space, genes) ==
    IF Sparse(space.Xtype)
    THEN IF Range(genes) \subseteq Range(space.var)
         THEN [error |-> "AttributeError", tensor |-> None]
         ELSE [error |-> "KeyError: training_genes", tensor |-> None]
    ELSE IF space.Xtype = "ndarray"
    THEN IF Range(genes) \subseteq Range(space.var)
         THEN [error |-> "none", tensor |-> Tensor(space, genes)]
         ELSE [error |-> "KeyError: training_genes", tensor |-> None]
    ELSE [error |-> "NotImplementedError", tensor |-> None]

\* T.any(axis=0).all()
AnyAll(T) == \A j \in DOMAIN T.cols : \E i \in DOMAIN T.rows : T.rows[i][j] # 0

\* Lines 192-193.
ZeroGenesError(s, g) ==
    IF ~AnyAll(s) \/ ~AnyAll(g)
    THEN "ValueError: Genes with all zero values detected. Run pp_adatas()."
    ELSE "none"

\* UniformDensity without the division.
UniformDensityUnnormalised(g) == Ndarray([i \in DOMAIN g.rows |-> 1], 1)

\* np.ones(G.shape[0]) / G.shape[0]
UniformDensity(g) == Ndarray([i \in DOMAIN g.rows |-> 1], Len(g.rows))

\* Lines 195-201. A density_prior that is a vector equals neither name.
ResolvedPrior(prior, space, g) ==
    IF prior = Str("rna_count_based")
    THEN IF space.density = None
         THEN [error |-> "KeyError: rna_count_based_density", prior |-> prior]
         ELSE [error |-> "none", prior |-> space.density]
    ELSE IF prior = Str("uniform")
    THEN [error |-> "none", prior |-> UniformDensity(g)]
    ELSE [error |-> "none", prior |-> prior]

\* DensityTarget keeping a d the caller supplied.
DensityTargetKeepingArgument(mode, prior, d_arg, g) ==
    IF d_arg # None
    THEN d_arg
    ELSE IF mode = "clusters" /\ prior = None THEN UniformDensity(g) ELSE prior

\* Lines 203-209: the value of d after both mode branches.
DensityTarget(mode, prior, d_arg, g) ==
    IF mode = "cells"
    THEN prior
    ELSE IF mode = "clusters"
    THEN IF prior = None THEN UniformDensity(g) ELSE prior
    ELSE d_arg

\* Lines 214-219 and 244-252: what is handed to mo.Mapper.
MapperArguments(s, g, dd, resume, a) ==
    [S |-> s, G |-> g, d |-> dd, adata_map |-> resume,
     lambda_d |-> a.lambda_d, lambda_g1 |-> a.lambda_g1]

\* mo.Mapper.__init__: a density target or a resumed mapping whose shape does
\* not fit S and G is fatal.
MapperShapeError(m) ==
    IF m.d # None /\ Len(m.d.num) # Len(m.G.rows)
    THEN "ShapeError: d"
    ELSE IF m.adata_map # None /\ m.adata_map.shape # <<Len(m.S.rows), Len(m.G.rows)>>
    THEN "ShapeError: adata_map"
    ELSE "none"

Mapper(m) ==
    [kind |-> "Mapper", S |-> m.S, G |-> m.G, d |-> m.d,
     lambda_d |-> m.lambda_d, lambda_g1 |-> m.lambda_g1,
     shape |-> <<Len(m.S.rows), Len(m.G.rows)>>, steps |-> 0]

IntVal(v) == [kind |-> "int", v |-> v]

\* Lines 254-257.
PrintEach(verbose) == IF verbose THEN IntVal(PrintEachVerbose) ELSE None

\* TrainArguments not forwarding the caller's num_epochs.
TrainArgumentsFixedEpochs(a) == [num_epochs |-> 1, print_each |-> PrintEach(a.verbose)]

\* Lines 259-264: the arguments of mapper.train.
TrainArguments(a) == [num_epochs |-> a.num_epochs, print_each |-> PrintEach(a.verbose)]

\* Lines 266-300: the result structure.
Result(mapping_matrix, history, cells, genes) ==
    [kind |-> "AnnData", X |-> mapping_matrix, obs |-> cells.obs,
     training_genes |-> genes, training_history |-> history]

\* ----------------------------------------------------------------- actions

Raise(e) == pc' = "raised" /\ error' = e

Advance == pc' = NextStage(pc) /\ error' = error

\* pp_adatas(adata_sc, adata_sp, genes), lines 22-70; list(set(...)) lists
\* the shared genes in an order of its own.
PPAdatas ==
    /\ pc = "pp_adatas"
    /\ LET sc1 == Normalised(adata_sc)
           sp1 == Normalised(adata_space)
       IN  \E genes \in Orderings(SharedGenes(args.genes, sc1.var, sp1.var)) :
               /\ adata_sc' = [sc1 EXCEPT !.uns = List(genes)]
               /\ adata_space' = [sp1 EXCEPT !.uns = List(genes),
                                            !.density = RnaCountDensity(sp1)]
               /\ adata_cells' = adata_sc'
    /\ pc' = Stages[1]
    /\ UNCHANGED <<args, error, training_genes, S, G, density_prior, d, mapper,
                   training_history, reports, adata_map, returned>>

\* A direct call of adata_to_cluster_expression, lines 73-102.
ClusterExpression ==
    /\ pc = "cluster_call"
    /\ \E unique_labels \in IndexOrders(value_counts(adata_sc.obs)) :
           LET r == adata_to_cluster_expression(adata_sc, args.cluster_label, args.scale,
                                                args.add_density, unique_labels)
           IN  IF r.error # "none"
               THEN Raise(r.error) /\ returned' = returned
               ELSE pc' = "done" /\ error' = error /\ returned' = r.ret
    /\ UNCHANGED <<args, adata_sc, adata_space, adata_cells, training_genes, S, G,
                   density_prior, d, mapper, training_history, reports, adata_map>>

\* Lines 139-150.
CheckArguments ==
    /\ pc = "check_args"
    /\ LET e == ArgumentError(args)
       IN  IF e # "none" THEN Raise(e) ELSE Advance
    /\ UNCHANGED <<args, adata_sc, adata_space, adata_cells, training_genes, S, G,
                   density_prior, d, mapper, training_history, reports, adata_map,
                   returned>>

\* Lines 152-155.
Aggregate ==
    /\ pc = "aggregate"
    /\ IF args.mode = "clusters"
       THEN \E unique_labels \in IndexOrders(value_counts(adata_cells.obs)) :
               LET r == adata_to_cluster_expression(adata_cells, args.cluster_label,
                                                    args.scale, TRUE, unique_labels)
               IN  IF r.error # "none"
                   THEN Raise(r.error) /\ adata_cells' = adata_cells
                   ELSE Advance /\ adata_cells' = r.ret
       ELSE Advance /\ adata_cells' = adata_cells
    /\ UNCHANGED <<args, adata_sc, adata_space, training_genes, S, G, density_prior, d,
                   mapper, training_history, reports, adata_map, returned>>

\* Lines 157-169.
CheckTrainingGenes ==
    /\ pc = "check_genes"
    /\ LET e == TrainingGenesError(adata_cells, adata_space)
       IN  IF e # "none"
           THEN Raise(e) /\ training_genes' = training_genes
           ELSE Advance /\ training_genes' = adata_cells.uns.items
    /\ UNCHANGED <<args, adata_sc, adata_space, adata_cells, S, G, density_prior, d,
                   mapper, training_history, reports, adata_map, returned>>

\* Lines 171-190.
AllocateTensors ==
    /\ pc = "allocate"
    /\ LET s == AllocateS(adata_cells, training_genes)
           g == AllocateG(adata_space, training_genes)
       IN  IF s.error # "none"
           THEN Raise(s.error) /\ S' = S /\ G' = G
           ELSE IF g.error # "none"
           THEN Raise(g.error) /\ S' = s.tensor /\ G' = G
           ELSE Advance /\ S' = s.tensor /\ G' = g.tensor
    /\ UNCHANGED <<args, adata_sc, adata_space, adata_cells, training_genes,
                   density_prior, d, mapper, training_history, reports, adata_map,
                   returned>>

\* Lines 192-193.
CheckZeroGenes ==
    /\ pc = "check_zero"
    /\ LET e == ZeroGenesError(S, G)
       IN  IF e # "none" THEN Raise(e) ELSE Advance
    /\ UNCHANGED <<args, adata_sc, adata_space, adata_cells, training_genes, S, G,
                   density_prior, d, mapper, training_history, reports, adata_map,
                   returned>>

\* Lines 195-209.
DefineDensity ==
    /\ pc = "density"
    /\ LET r == ResolvedPrior(density_prior, adata_space, G)
       IN  IF r.error # "none"
           THEN Raise(r.error) /\ density_prior' = density_prior /\ d' = d
           ELSE /\ Advance
                /\ density_prior' = r.prior
                /\ d' = DensityTarget(args.mode, r.prior, d, G)
    /\ UNCHANGED <<args, adata_sc, adata_space, adata_cells, training_genes, S, G,
                   mapper, training_history, reports, adata_map, returned>>

\* Lines 211-252.
ConstructMapper ==
    /\ pc = "construct"
    /\ LET m == MapperArguments(S, G, d, adata_map, args)
           e == MapperShapeError(m)
       IN  IF e # "none"
           THEN Raise(e) /\ mapper' = mapper
           ELSE Advance /\ mapper' = Mapper(m)
    /\ UNCHANGED <<args, adata_sc, adata_space, adata_cells, training_genes, S, G,
                   density_prior, d, training_history, reports, adata_map, returned>>

Reported(print_each, t) == print_each # None /\ t % print_each.v = 0

\* One epoch of mapper.train: a step on M, the loss appended to the history,
\* and a log line when the epoch is one to report.
TrainEpoch ==
    /\ pc = "train"
    /\ Len(training_history) < TrainArguments(args).num_epochs
    /\ LET t == Len(training_history)
       IN  /\ training_history' = Append(training_history, t)
           /\ mapper' = [mapper EXCEPT !.steps = @ + 1]
           /\ reports' = IF Reported(TrainArguments(args).print_each, t)
                         THEN reports + 1 ELSE reports
    /\ UNCHANGED <<args, adata_sc, adata_space, adata_cells, pc, error, training_genes,
                   S, G, density_prior, d, adata_map, returned>>

\* mapper.train returns after num_epochs epochs (lines 259-264).
TrainReturn ==
    /\ pc = "train"
    /\ Len(training_history) >= TrainArguments(args).num_epochs
    /\ Advance
    /\ UNCHANGED <<args, adata_sc, adata_space, adata_cells, training_genes, S, G,
                   density_prior, d, mapper, training_history, reports, adata_map,
                   returned>>

\* Lines 266-300.
SaveResults ==
    /\ pc = "save"
    /\ Advance
    /\ adata_map' = Result([shape |-> mapper.shape, steps |-> mapper.steps],
                           training_history, adata_cells, training_genes)
    /\ returned' = adata_map'
    /\ UNCHANGED <<args, adata_sc, adata_space, adata_cells, training_genes, S, G,
                   density_prior, d, mapper, training_history, reports>>

MapCellsToSpace ==
    \/ CheckArguments
    \/ Aggregate
    \/ CheckTrainingGenes
    \/ AllocateTensors
    \/ CheckZeroGenes
    \/ DefineDensity
    \/ ConstructMapper
    \/ TrainEpoch
    \/ TrainReturn
    \/ SaveResults

\* ------------------------------------------------------------------ inputs

AnnData(var, X, Xtype, obs, density, uns) ==
    [var |-> var, X |-> X, Xdiv |-> [i \in DOMAIN X |-> 1], Xtype |-> Xtype,
     obs |-> obs, density |-> density, uns |-> uns]

\* The sequences of 1 to n elements of T.
SeqsUpTo(n, T) == UNION {[1..k -> T] : k \in 1..n}

XTypes == {"csr_matrix", "csc_matrix", "ndarray", "other"}

BaseGenes == <<"a", "b">>

BaseLabels(n) == [i \in 1..n |-> IF i = 1 THEN "A" ELSE "B"]

BaseCells == AnnData(BaseGenes, [i \in 1..MaxCells |-> <<1, i>>], "csr_matrix",
                     BaseLabels(MaxCells), None, List(BaseGenes))

BaseSpaceX == [i \in 1..MaxSpots |-> <<i, 1>>]

BaseSpace ==
    LET a == AnnData(BaseGenes, BaseSpaceX, "ndarray", BaseLabels(MaxSpots), None,
                     List(BaseGenes))
    IN  [a EXCEPT !.density = RnaCountDensity(a)]

BaseArgs ==
    [mode |-> "cells", cluster_label |-> Str("cluster"), density_prior |-> None,
     lambda_d |-> 1, lambda_g1 |-> 1, num_epochs |-> 1, verbose |-> TRUE, d |-> None,
     adata_map |-> None, scale |-> TRUE, add_density |-> TRUE, genes |-> None]

NamedPriors == {None, Str("uniform"), Str("rna_count_based")}

\* Caller-made density vectors: every 0/1 vector of up to MaxSpots entries
\* over the divisors 1 and 2, and one with a negative entry.
ExplicitPriors ==
    {Ndarray(num, den) : num \in SeqsUpTo(MaxSpots, {0, 1}), den \in {1, 2}}
        \cup {Ndarray(<<2, -1>>, 1)}

\* A density vector for the argument d.
CallerD == Ndarray([i \in 1..MaxSpots |-> i], (MaxSpots * (MaxSpots + 1)) \div 2)

ResumeMaps ==
    {None} \cup {[kind |-> "AnnData", shape |-> <<r, c>>] :
                    r \in {MaxCells, MaxCells + 1}, c \in {MaxSpots}}

UnsValues ==
    {None, List(BaseGenes), List(<<"b", "a">>), List(<<"a">>), List(<<>>),
     List(<<"a", "c">>)}

SpaceOf(X, uns) ==
    LET a == AnnData(BaseGenes, X, "ndarray", [i \in DOMAIN X |-> "A"], None, uns)
    IN  [a EXCEPT !.density = RnaCountDensity(a)]

\* A dataset as loaded: genes named in either case, some expressed nowhere.
RawAnnData(var, expressed, Xtype) ==
    AnnData(var, [i \in 1..2 |-> [j \in DOMAIN var |-> IF expressed[j] THEN i ELSE 0]],
            Xtype, BaseLabels(2), None, None)

Started(call, at) ==
    /\ args = call[1]
    /\ adata_sc = call[2]
    /\ adata_space = call[3]
    /\ adata_cells = call[2]
    /\ pc = at
    /\ error = "none"
    /\ training_genes = <<>>
    /\ S = None
    /\ G = None
    /\ density_prior = call[1].density_prior
    /\ d = call[1].d
    /\ mapper = None
    /\ training_history = <<>>
    /\ reports = 0
    /\ adata_map = call[1].adata_map
    /\ returned = None

\* Every combination of the arguments, on the base datasets.
InitArguments ==
    \E m \in {"cells", "clusters", "constrained"},
       cl \in {None, Str("cluster"), Str("batch")},
       dp \in NamedPriors \cup {Ndarray(BaseSpaceX[1], 1), Ndarray([i \in 1..MaxSpots |-> 1], MaxSpots)},
       ld \in {0, 1}, lg \in {0, 1}, ne \in 0..MaxEpochs, v \in BOOLEAN,
       dd \in {None, CallerD}, am \in ResumeMaps :
        Started(<<[BaseArgs EXCEPT !.mode = m, !.cluster_label = cl, !.density_prior = dp,
                                   !.lambda_d = ld, !.lambda_g1 = lg, !.num_epochs = ne,
                                   !.verbose = v, !.d = dd, !.adata_map = am],
                  BaseCells, BaseSpace>>, Stages[1])

\* Every combination of storage classes and annotations, on the base counts.
InitStructure ==
    \E m \in {"cells", "clusters"}, dp \in NamedPriors, tc \in XTypes, ts \in XTypes,
       uc \in UnsValues, us \in UnsValues, rna \in BOOLEAN :
        Started(<<[BaseArgs EXCEPT !.mode = m, !.density_prior = dp],
                  [BaseCells EXCEPT !.Xtype = tc, !.uns = uc],
                  [BaseSpace EXCEPT !.Xtype = ts, !.uns = us,
                                    !.density = IF rna THEN @ ELSE None]>>, Stages[1])

\* Every single-cell dataset of up to MaxCells cells, on the base spatial one.
InitCells ==
    \E m \in {"cells", "clusters"}, dp \in NamedPriors, sc \in BOOLEAN, ld \in {0, 1},
       n \in 1..MaxCells :
        \E X \in [1..n -> {<<1, 0>>, <<0, 1>>}], obs \in [1..n -> {"A", "B", "NaN"}] :
            Started(<<[BaseArgs EXCEPT !.mode = m, !.density_prior = dp, !.scale = sc,
                                       !.lambda_d = ld],
                      AnnData(BaseGenes, X, "ndarray", obs, None, List(BaseGenes)),
                      BaseSpace>>, Stages[1])

\* Every spatial dataset of up to MaxSpots spots with every density prior.
InitSpace ==
    \E m \in {"cells", "clusters"}, dp \in NamedPriors \cup ExplicitPriors,
       uns \in {List(BaseGenes), List(<<>>)},
       X \in SeqsUpTo(MaxSpots, {<<0, 0>>, <<1, 0>>, <<0, 1>>, <<1, 1>>}) :
        Started(<<[BaseArgs EXCEPT !.mode = m, !.density_prior = dp],
                  [BaseCells EXCEPT !.uns = uns],
                  SpaceOf(X, uns)>>, Stages[1])

\* A call of map_cells_to_space.
Init == InitArguments \/ InitStructure \/ InitCells \/ InitSpace

Next == MapCellsToSpace

Spec == Init /\ [][Next]_vars

\* A call of adata_to_cluster_expression: every labelling of up to MaxObs
\* cells, with labels missing ("NaN") or not.
InitCluster ==
    \E cl \in {Str("cluster"), Str("batch")}, sc \in BOOLEAN, ad \in BOOLEAN,
       n \in 1..MaxObs :
        \E X \in [1..n -> {<<1, 0>>, <<0, 1>>}], obs \in [1..n -> {"A", "B", "NaN"}] :
            Started(<<[BaseArgs EXCEPT !.cluster_label = cl, !.scale = sc,
                                       !.add_density = ad],
                      AnnData(BaseGenes, X, "csr_matrix", obs, None, None),
                      BaseSpace>>, "cluster_call")

NextCluster == ClusterExpression

SpecCluster == InitCluster /\ [][NextCluster]_vars

\* pp_adatas on two datasets as loaded, then map_cells_to_space on them.
InitPP ==
    \E m \in {"cells", "clusters"},
       genes \in {None, List(<<"b", "A">>), List(<<"c", "B">>)},
       ts \in {"ndarray", "csr_matrix"}, nc \in 1..MaxGenes, ns \in 1..MaxGenes :
        \E vc \in [1..nc -> {"A", "a", "b"}], ec \in [1..nc -> BOOLEAN],
           vs \in [1..ns -> {"A", "a", "b"}], es \in [1..ns -> BOOLEAN] :
            Started(<<[BaseArgs EXCEPT !.mode = m, !.genes = genes,
                                       !.density_prior = Str("rna_count_based")],
                      RawAnnData(vc, ec, "csr_matrix"),
                      RawAnnData(vs, es, ts)>>, "pp_adatas")

NextPP == PPAdatas \/ MapCellsToSpace

SpecPP == InitPP /\ [][NextPP]_vars

\* ------------------------------------------------- claims: map_cells_to_space

NothingTrained ==
    /\ mapper = None
    /\ training_history = <<>>
    /\ reports = 0
    /\ returned = None

\* C1: a call with lambda_g1 = 0, whatever the other arguments and datasets,
\* ends in the lambda_g1 configuration error; no Mapper is constructed, no
\* epoch runs and nothing is returned.
C1_ZeroLambdaG1Rejected ==
    args.lambda_g1 = 0 =>
        /\ NothingTrained
        /\ pc \in {"check_args", "raised"}
        /\ pc = "raised" => error = "ValueError: lambda_g1 cannot be 0."

C1_Witness ==
    /\ args.lambda_g1 = 0
    /\ args.mode = "clusters"
    /\ args.density_prior # None
    /\ args.lambda_d # 0
    /\ pc = "raised"

\* C2: a call with a density prior ('uniform', 'rna_count_based' or a vector)
\* and lambda_d = 0, in either mode, ends in a configuration error before the
\* Mapper is constructed and returns nothing.
C2_PriorWithZeroLambdaDRejected ==
    (args.density_prior # None /\ args.lambda_d = 0) =>
        /\ NothingTrained
        /\ pc \in {"check_args", "raised"}
        /\ pc = "raised" =>
              error = IF args.lambda_g1 = 0
                      THEN "ValueError: lambda_g1 cannot be 0."
                      ELSE "ValueError: When density_prior is not None, lambda_d cannot be 0."

C2_Witness ==
    /\ args.density_prior.kind = "ndarray"
    /\ args.lambda_d = 0
    /\ args.lambda_g1 # 0
    /\ args.mode = "clusters"
    /\ pc = "raised"

\* C3: whenever the Mapper is constructed with a density target d (d is not
\* None), lambda_d is nonzero, in both modes and for every density_prior.
C3_TargetImpliesLambdaD ==
    mapper # None => (mapper.d # None => mapper.lambda_d # 0)

ListedErrors ==
    {"ValueError: lambda_g1 cannot be 0.",
     "ValueError: When density_prior is not None, lambda_d cannot be 0.",
     "ValueError: Argument mode must be cells or clusters",
     "ValueError: A cluster_label must be specified if mode = clusters.",
     "ValueError: Missing tangram parameters. Run pp_adatas().",
     "AssertionError",
     "NotImplementedError",
     "ValueError: Genes with all zero values detected. Run pp_adatas()."}

\* C4: every listed fatal error is raised before the Mapper is constructed
\* and before train is invoked: on an execution that ends in one of them no
\* epoch has run, the history is empty and nothing is returned.
C4_ListedErrorsBeforeTraining ==
    error \in ListedErrors => pc = "raised" /\ NothingTrained

C4_Witness ==
    /\ pc = "raised"
    /\ error = "ValueError: Genes with all zero values detected. Run pp_adatas()."
    /\ args.num_epochs > 0
    /\ S # None
    /\ G # None

\* C5: after a successful run the history in the result has exactly
\* num_epochs entries, one per epoch in order, and the mapping has taken
\* num_epochs steps, with reporting enabled or disabled.
C5_HistoryHasNumEpochsEntries ==
    returned # None =>
        /\ Len(returned.training_history) = args.num_epochs
        /\ \A t \in DOMAIN returned.training_history : returned.training_history[t] = t - 1
        /\ returned.X.steps = args.num_epochs

C5_Witness ==
    /\ returned # None
    /\ args.num_epochs > 1
    /\ ~args.verbose
    /\ reports = 0

WellFormedDensity(v, n) ==
    /\ Len(v.num) = n
    /\ \A i \in DOMAIN v.num : v.num[i] >= 0
    /\ v.den > 0
    /\ Sum(v.num) = v.den

\* C7 (as claimed): a d that reaches the Mapper has one entry per spot, no
\* negative entry and sum 1, however it was produced; a d of another length
\* is fatal before any epoch.
C7_TargetIsDistribution ==
    /\ (mapper # None /\ mapper.d # None) => WellFormedDensity(mapper.d, Len(mapper.G.rows))
    /\ error = "ShapeError: d" => NothingTrained

\* C7 (amended): a d that reaches the Mapper has one entry per spot; it has
\* no negative entry and sums to 1 when it is the 'uniform' vector, the
\* cluster-mode default, or the 'rna_count_based' vector pp_adatas stores
\* for a spatial dataset with a positive total count; a caller's vector
\* reaches the Mapper as given; a d of another length is fatal before any
\* epoch.
C7_ComputedTargetIsDistribution ==
    /\ (mapper # None /\ mapper.d # None) =>
          /\ Len(mapper.d.num) = Len(mapper.G.rows)
          /\ args.density_prior.kind = "ndarray" => mapper.d = args.density_prior
          /\ (/\ args.density_prior.kind # "ndarray"
              /\ args.density_prior = Str("rna_count_based") =>
                     Sum([i \in DOMAIN adata_space.X |-> Sum(adata_space.X[i])]) > 0)
                 => WellFormedDensity(mapper.d, Len(mapper.G.rows))
    /\ error = "ShapeError: d" => NothingTrained

C7_Witness ==
    /\ mapper # None
    /\ args.density_prior = Str("rna_count_based")
    /\ Len(mapper.d.num) = MaxSpots
    /\ \E i, j \in DOMAIN mapper.d.num : mapper.d.num[i] # mapper.d.num[j]
    /\ mapper.steps > 0

Recognized(t) == t \in {"csr_matrix", "csc_matrix", "ndarray"}

AllocationErrors == {"NotImplementedError", "AttributeError", "KeyError: training_genes"}

\* C9: the extraction of S and G fails with the unrecognized-storage error
\* exactly when a dataset's X is neither CSR/CSC sparse nor a dense array;
\* for every combination of recognized storage classes (the training genes
\* being genes of both datasets) it completes with S and G restricted to the
\* training genes and raises nothing.
C9_ExtractionFailsOnlyOnUnrecognized ==
    (/\ (pc = "raised" /\ error \in AllocationErrors) \/ G # None
     /\ Range(training_genes) \subseteq Range(adata_cells.var) \cap Range(adata_space.var))
        => /\ (pc = "raised" /\ error = "NotImplementedError")
                  <=> ~(Recognized(adata_cells.Xtype) /\ Recognized(adata_space.Xtype))
           /\ (Recognized(adata_cells.Xtype) /\ Recognized(adata_space.Xtype)) =>
                  /\ S # None /\ S.cols = training_genes
                  /\ G # None /\ G.cols = training_genes

Ones(n) == Ndarray([i \in 1..n |-> 1], n)

\* C10: the d the Mapper receives is determined by density_prior, mode and
\* the spatial dataset; the argument d plays no part, so in cells mode with
\* density_prior = None the Mapper receives no d.
C10_TargetIgnoresArgumentD ==
    mapper # None =>
        LET prior == IF args.density_prior = Str("rna_count_based")
                     THEN adata_space.density
                     ELSE IF args.density_prior = Str("uniform")
                     THEN Ones(Len(adata_space.X))
                     ELSE args.density_prior
        IN  mapper.d = IF args.mode = "clusters" /\ prior = None
                       THEN Ones(Len(adata_space.X))
                       ELSE prior

C10_Witness ==
    /\ mapper # None
    /\ args.d # None
    /\ args.mode = "cells"
    /\ args.density_prior = None
    /\ mapper.d = None

\* ------------------------------------- claims: adata_to_cluster_expression

Count(col, l) == Len(SelectSeq(col, LAMBDA x : x = l))

OneRowPerLabel ==
    /\ Range(returned.obs) = Range(Labelled(adata_sc.obs))
    /\ Len(returned.obs) = Cardinality(Range(Labelled(adata_sc.obs)))
    /\ Len(returned.X) = Len(returned.obs)

UnknownLabelRaises ==
    args.cluster_label.s \notin ObsColumns =>
        pc # "done" /\ returned = None /\ (pc = "raised" => error # "none")

\* C6 (as claimed): the result has one row per distinct label of the input
\* and, with add_density, the cluster_density of a row is (rows carrying its
\* label) / (rows of the input), so that the densities of the rows sum to 1;
\* a label that is no column of obs yields an error and no dataset.
C6_DensityOverAllRows ==
    /\ UnknownLabelRaises
    /\ pc = "done" =>
          /\ OneRowPerLabel
          /\ args.add_density =>
                /\ \A i \in DOMAIN returned.obs :
                      returned.density.num[i] * Len(adata_sc.obs)
                          = Count(adata_sc.obs, returned.obs[i]) * returned.density.den
                /\ returned.obs # <<>> =>
                      /\ returned.density.den > 0
                      /\ Sum(returned.density.num) = returned.density.den

\* C6 (amended): the result has one row per distinct label of the input and,
\* with add_density, the cluster_density of a row is (rows carrying its
\* label) / (rows carrying any label), so that the densities sum to 1 when
\* some row is labelled; a label that is no column of obs yields an error and
\* no dataset.
C6_DensityOverLabelledRows ==
    /\ UnknownLabelRaises
    /\ pc = "done" =>
          /\ OneRowPerLabel
          /\ args.add_density =>
                /\ Len(returned.density.num) = Len(returned.obs)
                /\ \A i \in DOMAIN returned.obs :
                      returned.density.num[i] * Len(Labelled(adata_sc.obs))
                          = Count(adata_sc.obs, returned.obs[i]) * returned.density.den
                /\ Labelled(adata_sc.obs) # <<>> =>
                      /\ returned.density.den > 0
                      /\ Sum(returned.density.num) = returned.density.den

C6_Witness ==
    /\ pc = "done"
    /\ Count(adata_sc.obs, "A") = 3
    /\ Count(adata_sc.obs, "B") = 1
    /\ Len(adata_sc.obs) = 4
    /\ returned.obs = <<"A", "B">>
    /\ returned.density = Ndarray(<<3, 1>>, 4)

\* ------------------------------------------------------- claims: pp_adatas

\* C8: after pp_adatas both datasets carry the same training-gene list, whose
\* genes all occur in both (lower-cased) gene indexes and, when genes is
\* given, in the lower-cased genes; the following map_cells_to_space, in
\* either mode, raises neither the missing-annotation nor the mismatch error,
\* and S and G have those genes as columns in that order.
C8_PreparedDatasetsAgree ==
    pc # "pp_adatas" =>
        /\ adata_sc.uns # None
        /\ adata_space.uns = adata_sc.uns
        /\ adata_cells.uns = adata_sc.uns
        /\ Range(adata_sc.uns.items) \subseteq Range(adata_sc.var) \cap Range(adata_space.var)
        /\ Len(adata_sc.uns.items) = Cardinality(Range(adata_sc.uns.items))
        /\ args.genes # None =>
              Range(adata_sc.uns.items) \subseteq Range(LowerIndex(args.genes.items))
        /\ error \notin {"ValueError: Missing tangram parameters. Run pp_adatas().",
                         "AssertionError"}
        /\ S # None => S.cols = adata_sc.uns.items
        /\ G # None => G.cols = adata_sc.uns.items /\ S # None

C8_Witness ==
    /\ returned # None
    /\ args.mode = "clusters"
    /\ args.genes # None
    /\ Len(G.cols) = 2

====
